---------------------------- MODULE Spec2Model ----------------------------
(***************************************************************************)
(* A model of pdf_repair.py: the ordered fallback chain of repair          *)
(* backends (try_repair_file), the diagnostic capture around each attempt  *)
(* (capture_warnings_for on top of Python's logging hierarchy), the        *)
(* output-path allocator (safe_output_path) and the batch driver (main).   *)
(*                                                                         *)
(* Texts whose characters the code inspects (file names: stem, suffix,     *)
(* sorting) are sequences of one-character strings.  Texts the code only   *)
(* concatenates (error entries) are sequences of chunks.                   *)
(***************************************************************************)
EXTENDS Integers, Sequences, FiniteSets, TLC

VARIABLES
    avail,      \* backends whose dependency is present (PdfReader/fitz/which)
    fs,         \* the directory tree: path -> content of the file
    pc,         \* position of main
    pdfs,       \* main's sorted list of PDFs
    idx,        \* number of PDFs main has finished
    results,    \* main's results list
    cur,        \* locals of the latest try_repair_file call, or NoCur
    console,    \* lines written by the root logger's stream handler
    reg,        \* logging: logger name -> handlers attached, in order
    recs,       \* LogCaptureHandler.records of each live handler
    stack,      \* the running capture_warnings_for calls, innermost last
    budget,     \* diagnostics the libraries may still emit
    capRet,     \* what the last finished capture_warnings_for call produced
    psrc,       \* argument of the last safe_output_path call
    pout,       \* its return value, or NoPath
    pmade       \* files created at allocated paths in the allocator harness

vars == <<avail, fs, pc, pdfs, idx, results, cur, console, reg, recs,
          stack, budget, capRet, psrc, pout, pmade>>

progVars == <<avail, pc, pdfs, idx, results, cur>>
logVars  == <<console, reg, recs, stack, budget, capRet>>
pathVars == <<psrc, pout, pmade>>

-----------------------------------------------------------------------------
(* Bounds of the model *)

\* PDFs present when main starts
MaxFiles == 2
\* diagnostics emitted by the libraries in one run
MaxEmit == 2
\* nesting depth of capture_warnings_for calls in the capture harness
MaxDepth == 2
\* files created at allocated paths in the allocator harness
MaxCreate == 2
\* highest counter among the files present when the allocator harness starts
MaxProbe == 2

-----------------------------------------------------------------------------
(* Characters and texts *)

\* the characters used, in code-point order
Alphabet ==
    <<"-", ".", "/", "0", "1", "2", "3", "4", "5", "6", "7", "8", "9", "_",
      "a", "b", "d", "e", "f", "g", "i", "l", "o", "p", "r", "s", "t", "x">>

Ord(c) == CHOOSE i \in 1..Len(Alphabet) : Alphabet[i] = c

\* Python's str.__lt__: lexicographic by code point, a proper prefix first
RECURSIVE StrLess(_, _)
StrLess(s, t) ==
    IF t = <<>> THEN FALSE
    ELSE IF s = <<>> THEN TRUE
    ELSE IF Head(s) = Head(t) THEN StrLess(Tail(s), Tail(t))
    ELSE Ord(Head(s)) < Ord(Head(t))

\* str(int) for a non-negative counter
RECURSIVE Digits(_)
Digits(k) ==
    IF k < 10 THEN <<Alphabet[4 + k]>>
    ELSE Digits(k \div 10) \o <<Alphabet[4 + (k % 10)]>>

\* str.rfind("."): the last index of ".", 0 when there is none
RFindDot(name) ==
    LET dots == {i \in 1..Len(name) : name[i] = "."}
    IN  IF dots = {} THEN 0 ELSE CHOOSE i \in dots : \A j \in dots : j <= i

\* PurePath.suffix: from the last dot, unless it leads or ends the name
Suffix(name) ==
    LET i == RFindDot(name)
    IN  IF 1 < i /\ i < Len(name) THEN SubSeq(name, i, Len(name)) ELSE <<>>

\* PurePath.stem
Stem(name) ==
    LET i == RFindDot(name)
    IN  IF 1 < i /\ i < Len(name) THEN SubSeq(name, 1, i - 1) ELSE name

-----------------------------------------------------------------------------
(* Paths: the parts below the script directory, the file name last *)

FixedPrefix == <<"f", "i", "x", "e", "d", "-">>
DotPdf == <<".", "p", "d", "f">>

NameOf(p) == p[Len(p)]

\* PurePath.with_name
WithName(p, name) == SubSeq(p, 1, Len(p) - 1) \o <<name>>

\* str(path): the parts joined by "/"
RECURSIVE PathStr(_)
PathStr(p) ==
    IF p = <<>> THEN <<>>
    ELSE IF Len(p) = 1 THEN p[1]
    ELSE p[1] \o <<"/">> \o PathStr(Tail(p))

\* PurePath.__lt__: the parts compared as lists of strings
RECURSIVE PathLess(_, _)
PathLess(p, q) ==
    IF q = <<>> THEN FALSE
    ELSE IF p = <<>> THEN TRUE
    ELSE IF Head(p) = Head(q) THEN PathLess(Tail(p), Tail(q))
    ELSE StrLess(Head(p), Head(q))

NoPath == <<>>

\* the candidate safe_output_path probes with the given counter
Candidate(src, counter) ==
    WithName(src, FixedPrefix \o Stem(NameOf(src)) \o <<"-">> \o Digits(counter)
                  \o Suffix(NameOf(src)))

\* a slip: the loop condition is tested once only
ProbeOnce(src, existing, dst, counter) ==
    IF dst \in existing THEN Candidate(src, counter) ELSE dst

\* the while loop of safe_output_path, entered with dst and counter
RECURSIVE ProbeLoop(_, _, _, _)
ProbeLoop(src, existing, dst, counter) ==
    IF dst \in existing
    THEN ProbeLoop(src, existing, Candidate(src, counter), counter + 1)
    ELSE dst

\* a slip: the default name is returned without looking at the directory
default_output_path(src, existing) ==
    WithName(src, FixedPrefix \o NameOf(src))

safe_output_path(src, existing) ==
    ProbeLoop(src, existing, WithName(src, FixedPrefix \o NameOf(src)), 1)

-----------------------------------------------------------------------------
(* Python's logging, as far as the program uses it.  A logger name is the  *)
(* sequence of its dot-separated components; the root logger is <<>>.      *)

NOTSET == 0
INFO == 20
WARNING == 30
ERROR == 40

LevelName(lvl) ==
    CASE lvl = INFO -> "INFO" [] lvl = WARNING -> "WARNING"
      [] lvl = ERROR -> "ERROR" [] OTHER -> "NOTSET"

Root == <<>>
RepairLogger == <<"repair">>
Loggers == {Root, RepairLogger, <<"pypdf">>, <<"pypdf", "_reader">>, <<"fitz">>}

\* the handler logging.basicConfig puts on the root logger
ConsoleHandler == [id |-> 0, kind |-> "console", level |-> NOTSET]

\* LogCaptureHandler(): level WARNING, records empty
NewCaptureHandler(id) == [id |-> id, kind |-> "capture", level |-> WARNING]

LogCaptureHandler(id) == NewCaptureHandler(id)

\* basicConfig(level=INFO) sets the root logger; every other logger is NOTSET
LoggerLevel(l) == IF l = Root THEN INFO ELSE NOTSET

\* Logger.getEffectiveLevel: the first level set, from l towards the root
RECURSIVE EffectiveLevel(_)
EffectiveLevel(l) ==
    IF LoggerLevel(l) # NOTSET \/ l = Root THEN LoggerLevel(l)
    ELSE EffectiveLevel(SubSeq(l, 1, Len(l) - 1))

\* Logger.callHandlers: the handlers of l, then of each ancestor (propagate
\* is true everywhere), in call order
RECURSIVE HandlersFrom(_, _)
HandlersFrom(r, l) ==
    (IF l \in DOMAIN r THEN r[l] ELSE <<>>)
    \o (IF l = Root THEN <<>> ELSE HandlersFrom(r, SubSeq(l, 1, Len(l) - 1)))

\* the handlers that handle a record of level lvl logged on l
Reached(r, l, lvl) ==
    IF lvl >= EffectiveLevel(l)
    THEN SelectSeq(HandlersFrom(r, l), LAMBDA h : lvl >= h.level)
    ELSE <<>>

\* Formatter("%(levelname)s: %(message)s")
CaptureFormat(lvl, msg) == <<LevelName(lvl), ": ", msg>>

\* basicConfig's "%(asctime)s - %(levelname)s - %(message)s"
ConsoleFormat(lvl, msg) == <<"asctime", " - ", LevelName(lvl), " - ", msg>>

RECURSIVE Repeat(_, _)
Repeat(x, n) == IF n = 0 THEN <<>> ELSE <<x>> \o Repeat(x, n - 1)

\* how often the handler object id of the given kind is among hs
Times(hs, kind, id) ==
    Cardinality({i \in 1..Len(hs) : hs[i].kind = kind /\ hs[i].id = id})

\* LogCaptureHandler.emit on every collector reached
RecsAfter(rc, r, l, lvl, msg) ==
    LET hs == Reached(r, l, lvl)
    IN  [id \in DOMAIN rc |->
            rc[id] \o Repeat(CaptureFormat(lvl, msg), Times(hs, "capture", id))]

\* StreamHandler.emit on the console handler, if reached
ConsoleAfter(con, r, l, lvl, msg) ==
    con \o Repeat(ConsoleFormat(lvl, msg),
                  Times(Reached(r, l, lvl), "console", ConsoleHandler.id))

\* several calls on the "repair" logger in a row
RECURSIVE ConsoleAfterAll(_, _, _, _)
ConsoleAfterAll(con, r, lvl, msgs) ==
    IF msgs = <<>> THEN con
    ELSE ConsoleAfterAll(ConsoleAfter(con, r, RepairLogger, lvl, Head(msgs)),
                         r, lvl, Tail(msgs))

-----------------------------------------------------------------------------
(* capture_warnings_for *)

\* handlers[name] = handler on an insertion-ordered dict
DictSet(dict, name, h) ==
    IF \E i \in 1..Len(dict) : dict[i].name = name
    THEN [i \in 1..Len(dict) |->
            IF dict[i].name = name THEN [name |-> name, handler |-> h] ELSE dict[i]]
    ELSE Append(dict, [name |-> name, handler |-> h])

\* a handler object never seen before
FreshId(rc) == CHOOSE n \in 1..(Cardinality(DOMAIN rc) + 1) : n \notin DOMAIN rc

\* lines 83-89: one new collector per name, added to the logger and the dict
RECURSIVE AttachLoop(_, _, _, _)
AttachLoop(names, r, rc, dict) ==
    IF names = <<>> THEN [reg |-> r, recs |-> rc, handlers |-> dict]
    ELSE LET name == Head(names)
             h == LogCaptureHandler(FreshId(rc))
         IN  AttachLoop(Tail(names),
                        [r EXCEPT ![name] = Append(@, h)],
                        rc @@ (h.id :> <<>>),
                        DictSet(dict, name, h))

\* Logger.removeHandler: the first occurrence, if the handler is there
RemoveFirst(seq, h) ==
    IF \E i \in 1..Len(seq) : seq[i] = h
    THEN LET i == CHOOSE k \in 1..Len(seq) :
                      seq[k] = h /\ \A j \in 1..(k - 1) : seq[j] # h
         IN  SubSeq(seq, 1, i - 1) \o SubSeq(seq, i + 1, Len(seq))
    ELSE seq

\* lines 100-101: the finally block
RECURSIVE DetachLoop(_, _)
DetachLoop(dict, r) ==
    IF dict = <<>> THEN r
    ELSE DetachLoop(Tail(dict),
                    [r EXCEPT ![Head(dict).name] = RemoveFirst(@, Head(dict).handler)])

\* the handlers are removed after the try statement instead of in a finally
\* block: an exit that is not caught skips the removal
DetachUnlessUncaught(dict, r, outcome) ==
    IF outcome = "uncaught" THEN r ELSE DetachLoop(dict, r)

\* the registry after the call ends with the given outcome of func:
\* "returned", "raised" (an Exception) or "uncaught" (any other exit)
DetachOnExit(dict, r, outcome) == DetachLoop(dict, r)

\* lines 104-106: the records of every collector, in dict order
RECURSIVE Collect(_, _)
Collect(dict, rc) ==
    IF dict = <<>> THEN <<>>
    ELSE rc[Head(dict).handler.id] \o Collect(Tail(dict), rc)

\* collectors that are still attached somewhere keep their records
LiveRecs(rc, r) ==
    LET live == {id \in DOMAIN rc :
                    \E l \in DOMAIN r : \E i \in 1..Len(r[l]) : r[l][i].id = id}
    IN  [id \in live |-> rc[id]]

\* the registry basicConfig leaves: the console handler on the root logger
InitReg == [l \in Loggers |-> IF l = Root THEN <<ConsoleHandler>> ELSE <<>>]

NoRet == [outcome |-> "none"]

\* exc = None
NoExc == [kind |-> "None", msg |-> ""]

\* a call of capture_warnings_for(names, func) up to the call of func
CaptureEnter(names, r, rc, st) ==
    LET a == AttachLoop(names, r, rc, <<>>)
    IN  [reg |-> a.reg, recs |-> a.recs,
         stack |-> Append(st, [names |-> names, handlers |-> a.handlers,
                              pre |-> r, emitted |-> <<>>])]

\* the rest of the innermost call, once func has ended with the outcome.
\* ret.result, ret.warnings and ret.exc are the tuple returned (nothing is
\* returned on an uncaught exit); names, emitted, pre and post record the
\* call for the properties
CaptureLeave(r, rc, st, outcome, value, exc) ==
    LET f == st[Len(st)]
        r2 == DetachOnExit(f.handlers, r, outcome)
    IN  [reg |-> r2,
         recs |-> LiveRecs(rc, r2),
         stack |-> SubSeq(st, 1, Len(st) - 1),
         ret |-> [outcome |-> outcome,
                  result |-> IF outcome = "returned" THEN value ELSE "None",
                  warnings |-> IF outcome = "uncaught" THEN <<>>
                               ELSE Collect(f.handlers, rc),
                  exc |-> IF outcome = "raised" THEN exc ELSE NoExc,
                  names |-> f.names, emitted |-> f.emitted,
                  pre |-> f.pre, post |-> r2]]

\* the n-th diagnostic of a run has its own text
DiagText(n) == <<"diagnostic 1", "diagnostic 2", "diagnostic 3", "diagnostic 4">>[n]

\* every running call has seen the record
NoteEmitted(st, l, lvl, msg) ==
    [i \in 1..Len(st) |->
        [st[i] EXCEPT !.emitted = Append(@, [logger |-> l, level |-> lvl, msg |-> msg])]]

-----------------------------------------------------------------------------
(* The backends *)

STRATEGIES ==
    << [name |-> "pypdf", loggers |-> << <<"pypdf">>, <<"pypdf", "_reader">> >>],
       [name |-> "pymupdf", loggers |-> << <<"fitz">> >>],
       [name |-> "qpdf", loggers |-> <<>>],
       [name |-> "ghostscript", loggers |-> <<>>] >>

Backends == {STRATEGIES[i].name : i \in 1..Len(STRATEGIES)}

\* the logger a library writes its diagnostics to while it repairs a file
EmitsOn(b) ==
    CASE b = "pypdf" -> {<<"pypdf", "_reader">>}
      [] b = "pymupdf" -> {<<"fitz">>}
      [] OTHER -> {}

\* raise RuntimeError(...) of a backend whose dependency is missing
CapabilityError(b) ==
    [kind |-> "RuntimeError",
     msg |-> CASE b = "pypdf" -> "pypdf not available"
               [] b = "pymupdf" -> "PyMuPDF not available"
               [] b = "qpdf" -> "qpdf not installed"
               [] OTHER -> "ghostscript not installed"]

\* what a backend that ran raises: a library's parse error, or
\* CalledProcessError from subprocess.run(check=True)
ExecutionError(b) ==
    IF b \in {"qpdf", "ghostscript"}
    THEN [kind |-> "CalledProcessError", msg |-> "returned non-zero exit status"]
    ELSE [kind |-> "PdfError", msg |-> "cannot read"]

-----------------------------------------------------------------------------
(* Files *)

\* count_pages returning None, and a library failing to open a file
NoPages == -1

\* a PDF is what each library makes of it: its page count, or NoPages
\* when the library raises on it
Pdf(viaPypdf, viaFitz) == [pypdf |-> viaPypdf, fitz |-> viaFitz]

APdf == <<"a", ".", "p", "d", "f">>
SubDir == <<"s">>
ReportName ==
    <<"r", "e", "p", "a", "i", "r", "_", "r", "e", "p", "o", "r", "t",
      ".", "l", "o", "g">>

\* script_dir / "repair_report.log"
ReportPath == <<ReportName>>

\* the report a previous run left
StaleReport == [blocks |-> << [stale |-> TRUE] >>]

\* the PDFs a run may find: a damaged file only PyMuPDF can read, the
\* output of an earlier run, and a file in a subdirectory no library reads
InitialPdfs ==
    (<<APdf>> :> Pdf(NoPages, 1))
    @@ (<<FixedPrefix \o APdf>> :> Pdf(1, 1))
    @@ (<<SubDir, APdf>> :> Pdf(NoPages, NoPages))

\* the tree with the PDFs S; the run that left fixed-a.pdf left its report too
InitialFiles(S) ==
    [p \in S |-> InitialPdfs[p]]
    @@ (IF <<FixedPrefix \o APdf>> \in S THEN ReportPath :> StaleReport ELSE <<>>)

\* the trees main may start in: those above, and a directory whose PDFs
\* are gone while the report of an earlier run is still there
InitialTrees ==
    {InitialFiles(S) : S \in {T \in SUBSET DOMAIN InitialPdfs : Cardinality(T) <= MaxFiles}}
    \cup {ReportPath :> StaleReport}

\* what a backend that succeeds may leave at dst: the page is kept, or
\* pypdf found no page to copy, or Ghostscript wrote what no library reads
OutContents(b) ==
    CASE b = "pypdf" -> {Pdf(0, 0), Pdf(1, 1)}
      [] b = "ghostscript" -> {Pdf(NoPages, NoPages), Pdf(1, 1)}
      [] OTHER -> {Pdf(1, 1)}

\* what a backend that fails after opening dst leaves there
PartialContent == Pdf(NoPages, NoPages)

\* fnmatch(name, "*.pdf")
IsPdfName(name) ==
    Len(name) >= Len(DotPdf)
    /\ SubSeq(name, Len(name) - Len(DotPdf) + 1, Len(name)) = DotPdf

\* a slip: the scan is left in an order other than ascending (here descending)
RECURSIVE ListingOrder(_)
ListingOrder(S) ==
    IF S = {} THEN <<>>
    ELSE LET m == CHOOSE p \in S : \A q \in S \ {p} : PathLess(q, p)
         IN  <<m>> \o ListingOrder(S \ {m})

\* sorted(): ascending by PurePath.__lt__
RECURSIVE SortPaths(_)
SortPaths(S) ==
    IF S = {} THEN <<>>
    ELSE LET m == CHOOSE p \in S : \A q \in S \ {p} : PathLess(p, q)
         IN  <<m>> \o SortPaths(S \ {m})

\* sorted(script_dir.rglob("*.pdf"))
ScanPdfs(files) == SortPaths({p \in DOMAIN files : IsPdfName(NameOf(p))})

\* count_pages: pypdf first, then PyMuPDF, None when neither gives a count
count_pages(path, files, av) ==
    IF "pypdf" \in av /\ path \in DOMAIN files /\ files[path].pypdf # NoPages
    THEN files[path].pypdf
    ELSE IF "pymupdf" \in av /\ path \in DOMAIN files /\ files[path].fitz # NoPages
    THEN files[path].fitz
    ELSE NoPages

\* a slip: pypdf is listed without looking at the import
check_available_tools_pypdf_assumed(av) ==
    <<"pypdf">> \o SelectSeq(<<"pymupdf", "qpdf", "ghostscript">>, LAMBDA b : b \in av)

\* check_available_tools
check_available_tools(av) ==
    SelectSeq(<<"pypdf", "pymupdf", "qpdf", "ghostscript">>, LAMBDA b : b \in av)

-----------------------------------------------------------------------------
(* try_repair_file *)

NoCur == [src |-> NoPath, returned |-> FALSE]

\* a slip: the result starts out as FAILED, to be corrected on success
EmptyResultPessimistic(src) ==
    [original |-> PathStr(src), repaired |-> <<>>, status |-> "FAILED",
     strategy |-> "", warnings |-> <<>>, error |-> <<>>, pages_before |-> NoPages,
     pages_after |-> NoPages]

\* a slip: the result starts out with the default destination filled in
EmptyResultWithDst(src) ==
    [original |-> PathStr(src),
     repaired |-> PathStr(WithName(src, FixedPrefix \o NameOf(src))),
     status |-> "", strategy |-> "", warnings |-> <<>>, error |-> <<>>,
     pages_before |-> NoPages, pages_after |-> NoPages]

\* lines 325-334
EmptyResult(src) ==
    [original |-> PathStr(src), repaired |-> <<>>, status |-> "", strategy |-> "",
     warnings |-> <<>>, error |-> <<>>, pages_before |-> NoPages,
     pages_after |-> NoPages]

\* f"{strat_name}: {type(exc).__name__}: {exc}"
ErrorEntry(name, exc) == <<name, ": ", exc.kind, ": ", exc.msg>>

\* sep.join(entries)
RECURSIVE Join(_, _)
Join(entries, sep) ==
    IF entries = <<>> THEN <<>>
    ELSE IF Len(entries) = 1 THEN entries[1]
    ELSE entries[1] \o <<sep>> \o Join(Tail(entries), sep)

\* a slip: only the last error is reported
AggregateLastError(errors) ==
    IF errors # <<>> THEN <<"All strategies failed. ">> \o errors[Len(errors)]
    ELSE <<"All strategies failed (no exceptions recorded)">>

\* lines 364-367
AggregateError(errors) ==
    IF errors # <<>> THEN <<"All strategies failed. ">> \o Join(errors, "; ")
    ELSE <<"All strategies failed (no exceptions recorded)">>

\* a slip: the warnings of an attempt replace those of the attempts before
WithWarningsOfLast(result, ret) ==
    [result EXCEPT !.warnings = ret.warnings]

\* lines 348-349
WithWarnings(result, ret) ==
    IF ret.warnings # <<>>
    THEN [result EXCEPT !.warnings = @ \o ret.warnings]
    ELSE result

\* a slip: the return of line 357 is missing, so the loop goes on to the
\* next backend and, after the last one, to the lines that report FAILED
OnSuccessNoReturn(c, ret, files, av) ==
    LET r == [WithWarnings(c.result, ret) EXCEPT
                 !.status = "REPAIRED",
                 !.strategy = STRATEGIES[c.si].name,
                 !.repaired = PathStr(c.dst),
                 !.pages_after = count_pages(c.dst, files, av)]
    IN  IF c.si < Len(STRATEGIES)
        THEN [c EXCEPT !.result = r, !.si = @ + 1]
        ELSE [c EXCEPT !.result = [r EXCEPT !.error = AggregateError(c.errors),
                                            !.status = "FAILED"],
                       !.returned = TRUE]

\* a slip: the destination is allocated again when the result is filled in
OnSuccessReallocates(c, ret, files, av) ==
    LET again == safe_output_path(c.src, DOMAIN files)
    IN  [c EXCEPT !.result = [WithWarnings(c.result, ret) EXCEPT
                                  !.status = "REPAIRED",
                                  !.strategy = STRATEGIES[c.si].name,
                                  !.repaired = PathStr(again),
                                  !.pages_after = count_pages(again, files, av)],
                  !.returned = TRUE]

\* a slip: a repair whose output has no countable page is reported FAILED
OnSuccessGated(c, ret, files, av) ==
    LET after == count_pages(c.dst, files, av)
    IN  [c EXCEPT !.result = [WithWarnings(c.result, ret) EXCEPT
                                  !.status = IF after > 0 THEN "REPAIRED" ELSE "FAILED",
                                  !.strategy = STRATEGIES[c.si].name,
                                  !.repaired = PathStr(c.dst),
                                  !.pages_after = after],
                  !.returned = TRUE]

\* lines 353-357
OnSuccess(c, ret, files, av) ==
    [c EXCEPT !.result = [WithWarnings(c.result, ret) EXCEPT
                              !.status = "REPAIRED",
                              !.strategy = STRATEGIES[c.si].name,
                              !.repaired = PathStr(c.dst),
                              !.pages_after = count_pages(c.dst, files, av)],
              !.returned = TRUE]

\* a slip: line 360 does not look at exc, and an entry is appended for a
\* call that returned without success too
OnFailureAlwaysRecords(c, ret) ==
    LET errs == Append(c.errors, ErrorEntry(STRATEGIES[c.si].name, ret.exc))
    IN  IF c.si < Len(STRATEGIES)
        THEN [c EXCEPT !.result = WithWarnings(c.result, ret),
                       !.errors = errs, !.si = @ + 1]
        ELSE [c EXCEPT !.result = [WithWarnings(c.result, ret) EXCEPT
                                       !.error = AggregateError(errs),
                                       !.status = "FAILED"],
                       !.errors = errs, !.returned = TRUE]

\* a slip: the first failure ends the loop
OnFailureGiveUp(c, ret) ==
    LET errs == IF ret.exc # NoExc
                THEN Append(c.errors, ErrorEntry(STRATEGIES[c.si].name, ret.exc))
                ELSE c.errors
    IN  [c EXCEPT !.result = [WithWarnings(c.result, ret) EXCEPT
                                  !.error = AggregateError(errs),
                                  !.status = "FAILED"],
                  !.errors = errs, !.returned = TRUE]

\* lines 360-370: the error entry, then the next backend or the FAILED result
OnFailure(c, ret) ==
    LET errs == IF ret.exc # NoExc
                THEN Append(c.errors, ErrorEntry(STRATEGIES[c.si].name, ret.exc))
                ELSE c.errors
    IN  IF c.si < Len(STRATEGIES)
        THEN [c EXCEPT !.result = WithWarnings(c.result, ret),
                       !.errors = errs, !.si = @ + 1]
        ELSE [c EXCEPT !.result = [WithWarnings(c.result, ret) EXCEPT
                                       !.error = AggregateError(errs),
                                       !.status = "FAILED"],
                       !.errors = errs, !.returned = TRUE]

\* lines 348-370, from the tuple capture_warnings_for returned
AfterAttempt(c, ret, files, av) ==
    IF ret.exc = NoExc /\ ret.result = "True"
    THEN OnSuccess(c, ret, files, av)
    ELSE OnFailure(c, ret)

-----------------------------------------------------------------------------
(* main *)

\* lines 445-455
FatalLines ==
    <<"No PDF repair tools are available!", "",
      "Please install at least one of the following:", "  Python libraries:",
      "    pip3 install pypdf", "    pip3 install pymupdf",
      "  Command-line tools (macOS):", "    brew install qpdf",
      "    brew install ghostscript", "", "After installing, run this script again.">>

\* one block of write_log_report
ReportBlock(r) ==
    [original |-> r.original, status |-> r.status, strategy |-> r.strategy,
     repaired |-> r.repaired, pages_before |-> r.pages_before,
     pages_after |-> r.pages_after, warnings |-> r.warnings, error |-> r.error]

\* a slip: the report is opened for appending
write_log_report_appending(rs, files) ==
    LET old == IF ReportPath \in DOMAIN files THEN files[ReportPath].blocks ELSE <<>>
    IN  (ReportPath :> [blocks |-> old \o [i \in 1..Len(rs) |-> ReportBlock(rs[i])]])
        @@ files

\* write_log_report: open(log_path, "w") and one block per result
write_log_report(rs, files) ==
    (ReportPath :> [blocks |-> [i \in 1..Len(rs) |-> ReportBlock(rs[i])]]) @@ files

Init ==
    /\ avail \in SUBSET Backends
    /\ fs \in InitialTrees
    /\ pc = "start"
    /\ pdfs = <<>>
    /\ idx = 0
    /\ results = <<>>
    /\ cur = NoCur
    /\ console = <<>>
    /\ reg = InitReg
    /\ recs = <<>>
    /\ stack = <<>>
    /\ budget = MaxEmit
    /\ capRet = NoRet
    /\ psrc = NoPath
    /\ pout = NoPath
    /\ pmade = 0

\* main, lines 443-458: the availability check
CheckTools ==
    /\ pc = "start"
    /\ IF check_available_tools(avail) = <<>>
       THEN /\ console' = ConsoleAfterAll(console, reg, ERROR, FatalLines)
            /\ pc' = "halted"
       ELSE /\ console' = ConsoleAfterAll(console, reg, INFO,
                                          <<"Available repair tools">>)
            /\ pc' = "scan"
    /\ UNCHANGED <<avail, fs, pdfs, idx, results, cur, reg, recs, stack, budget,
                   capRet, psrc, pout, pmade>>

\* main, lines 460-470: the scan
Scan ==
    /\ pc = "scan"
    /\ pdfs' = ScanPdfs(fs)
    /\ IF pdfs' = <<>>
       THEN /\ console' = ConsoleAfterAll(console, reg, INFO,
                                          <<"Scanning directory", "No PDFs found.">>)
            /\ pc' = "done"
       ELSE /\ console' = ConsoleAfterAll(console, reg, INFO,
                                          <<"Scanning directory", "Found PDFs">>)
            /\ pc' = "loop"
    /\ results' = <<>>
    /\ UNCHANGED <<avail, fs, idx, cur, reg, recs, stack, budget, capRet,
                   psrc, pout, pmade>>

\* main, lines 471-473, and try_repair_file, lines 325-340
BeginFile ==
    /\ pc = "loop"
    /\ idx < Len(pdfs)
    /\ LET src == pdfs[idx + 1]
       IN  cur' = [src |-> src,
                   result |-> [EmptyResult(src) EXCEPT
                                  !.pages_before = count_pages(src, fs, avail)],
                   dst |-> safe_output_path(src, DOMAIN fs),
                   errors |-> <<>>,
                   si |-> 1,
                   tried |-> <<>>,
                   returned |-> FALSE]
    /\ console' = ConsoleAfterAll(console, reg, INFO, <<"Processing">>)
    /\ pc' = "attach"
    /\ UNCHANGED <<avail, fs, pdfs, idx, results, reg, recs, stack, budget,
                   capRet, psrc, pout, pmade>>

\* lines 343-346 and capture_warnings_for, lines 80-89: the collectors are
\* attached and the backend is called
AttemptBegin ==
    /\ pc = "attach"
    /\ LET e == CaptureEnter(STRATEGIES[cur.si].loggers, reg, recs, stack)
       IN  /\ reg' = e.reg
           /\ recs' = e.recs
           /\ stack' = e.stack
    /\ pc' = "work"
    /\ UNCHANGED <<avail, fs, pdfs, idx, results, cur, console, budget, capRet,
                   psrc, pout, pmade>>

\* the library of the running backend logs a warning
BackendEmit ==
    /\ pc = "work"
    /\ budget > 0
    /\ STRATEGIES[cur.si].name \in avail
    /\ \E l \in EmitsOn(STRATEGIES[cur.si].name) :
          LET msg == DiagText(budget)
          IN  /\ recs' = RecsAfter(recs, reg, l, WARNING, msg)
              /\ console' = ConsoleAfter(console, reg, l, WARNING, msg)
              /\ stack' = NoteEmitted(stack, l, WARNING, msg)
    /\ budget' = budget - 1
    /\ UNCHANGED <<avail, fs, pc, pdfs, idx, results, cur, reg, capRet,
                   psrc, pout, pmade>>

\* the rest of one attempt: capture_warnings_for from line 93 on, then
\* try_repair_file, lines 348-370, and when the file is finished main,
\* lines 474-475.  cur.tried records the attempt: the backend and how its
\* call ended
FinishAttempt(outcome, value, exc, files) ==
    LET l == CaptureLeave(reg, recs, stack, outcome, value, exc)
        c == AfterAttempt([cur EXCEPT !.tried =
                              Append(@, [name |-> STRATEGIES[cur.si].name,
                                         outcome |-> outcome])],
                          l.ret, files, avail)
    IN  /\ reg' = l.reg
        /\ recs' = l.recs
        /\ stack' = l.stack
        /\ capRet' = l.ret
        /\ fs' = files
        /\ cur' = c
        /\ IF c.returned
           THEN /\ results' = Append(results, c.result)
                /\ idx' = idx + 1
                /\ console' = ConsoleAfterAll(console, reg', INFO, <<c.result.status>>)
                /\ pc' = "loop"
           ELSE /\ pc' = "attach"
                /\ UNCHANGED <<results, idx, console>>
        /\ UNCHANGED <<avail, pdfs, budget, psrc, pout, pmade>>

\* the backend writes dst and returns True
BackendReturns ==
    /\ pc = "work"
    /\ STRATEGIES[cur.si].name \in avail
    /\ \E content \in OutContents(STRATEGIES[cur.si].name) :
          FinishAttempt("returned", "True", NoExc, (cur.dst :> content) @@ fs)

\* the backend raises: at once when its dependency is missing, else after
\* it ran, with or without a partial file left at dst
BackendRaises ==
    /\ pc = "work"
    /\ LET b == STRATEGIES[cur.si].name
       IN  IF b \notin avail
           THEN FinishAttempt("raised", "None", CapabilityError(b), fs)
           ELSE \E wrote \in BOOLEAN :
                   FinishAttempt("raised", "None", ExecutionError(b),
                                 IF wrote THEN (cur.dst :> PartialContent) @@ fs ELSE fs)

\* the operator interrupts the run while a backend is running:
\* KeyboardInterrupt is no Exception, so it leaves capture_warnings_for
\* through the finally block only, then try_repair_file and main; the
\* process ends and what it held in memory is gone
Interrupted ==
    /\ pc = "work"
    /\ STRATEGIES[cur.si].name \in avail
    /\ LET l == CaptureLeave(reg, recs, stack, "uncaught", "None", NoExc)
       IN  /\ reg' = l.reg
           /\ recs' = l.recs
           /\ stack' = l.stack
           /\ capRet' = l.ret
    /\ cur' = NoCur
    /\ pdfs' = <<>>
    /\ idx' = 0
    /\ results' = <<>>
    /\ pc' = "interrupted"
    /\ UNCHANGED <<avail, fs, console, budget, psrc, pout, pmade>>

\* main, lines 477-480
WriteReport ==
    /\ pc = "loop"
    /\ idx = Len(pdfs)
    /\ fs' = write_log_report(results, fs)
    /\ console' = ConsoleAfterAll(console, reg, INFO, <<"Log written">>)
    /\ cur' = NoCur
    /\ pc' = "done"
    /\ UNCHANGED <<avail, pdfs, idx, results, reg, recs, stack, budget,
                   capRet, psrc, pout, pmade>>

Next ==
    \/ CheckTools
    \/ Scan
    \/ BeginFile
    \/ AttemptBegin
    \/ BackendEmit
    \/ BackendReturns
    \/ BackendRaises
    \/ Interrupted
    \/ WriteReport

Spec == Init /\ [][Next]_vars

-----------------------------------------------------------------------------
(* capture_warnings_for on its own: calls with the logger lists the        *)
(* program passes, nested up to MaxDepth, around work that logs on any     *)
(* library logger at any level and ends in any way                         *)

\* the records the libraries may log: a warning on a logger whose parent
\* is named too, and a record below the collectors' level
Diagnostics ==
    {[logger |-> <<"pypdf", "_reader">>, level |-> WARNING],
     [logger |-> <<"fitz">>, level |-> INFO]}

InitCap ==
    /\ avail = {}
    /\ fs = <<>>
    /\ pc = "harness"
    /\ pdfs = <<>>
    /\ idx = 0
    /\ results = <<>>
    /\ cur = NoCur
    /\ console = <<>>
    /\ reg = InitReg
    /\ recs = <<>>
    /\ stack = <<>>
    /\ budget = MaxEmit
    /\ capRet = NoRet
    /\ psrc = NoPath
    /\ pout = NoPath
    /\ pmade = 0

\* lines 80-93: a call, from within the work of the running call if any
CapCall ==
    /\ pc = "harness"
    /\ Len(stack) < MaxDepth
    /\ \E i \in 1..Len(STRATEGIES) :
          LET e == CaptureEnter(STRATEGIES[i].loggers, reg, recs, stack)
          IN  /\ reg' = e.reg
              /\ recs' = e.recs
              /\ stack' = e.stack
    /\ UNCHANGED <<console, budget, capRet>>
    /\ UNCHANGED <<fs, progVars, pathVars>>

\* a library logs a record
CapEmit ==
    /\ pc = "harness"
    /\ budget > 0
    /\ \E d \in Diagnostics :
          LET msg == DiagText(budget)
          IN  /\ recs' = RecsAfter(recs, reg, d.logger, d.level, msg)
              /\ console' = ConsoleAfter(console, reg, d.logger, d.level, msg)
              /\ stack' = NoteEmitted(stack, d.logger, d.level, msg)
    /\ budget' = budget - 1
    /\ UNCHANGED <<reg, capRet>>
    /\ UNCHANGED <<fs, progVars, pathVars>>

\* lines 93-108: the work of the innermost call ends
CapEnd ==
    /\ pc = "harness"
    /\ stack # <<>>
    /\ \E outcome \in {"returned", "raised", "uncaught"} :
          LET l == CaptureLeave(reg, recs, stack, outcome, "True",
                                [kind |-> "Exception", msg |-> "failed"])
          IN  /\ reg' = l.reg
              /\ recs' = l.recs
              /\ stack' = l.stack
              /\ capRet' = l.ret
    /\ UNCHANGED <<console, budget>>
    /\ UNCHANGED <<fs, progVars, pathVars>>

NextCap == CapCall \/ CapEmit \/ CapEnd

SpecCap == InitCap /\ [][NextCap]_vars

-----------------------------------------------------------------------------
(* safe_output_path on its own: any source, any set of files present, and  *)
(* files created at the allocated paths between calls                      *)

PathSources == {<<APdf>>, <<SubDir, APdf>>, <<DotPdf>>}

\* the names the allocator may find taken when the harness starts
PathUniverse ==
    UNION {{WithName(src, FixedPrefix \o NameOf(src))}
           \cup {Candidate(src, k) : k \in 1..MaxProbe} : src \in PathSources}

InitPath ==
    /\ avail = {}
    /\ \E S \in SUBSET PathUniverse : fs = [p \in S |-> Pdf(1, 1)]
    /\ pc = "allocator"
    /\ pdfs = <<>>
    /\ idx = 0
    /\ results = <<>>
    /\ cur = NoCur
    /\ console = <<>>
    /\ reg = InitReg
    /\ recs = <<>>
    /\ stack = <<>>
    /\ budget = 0
    /\ capRet = NoRet
    /\ psrc = NoPath
    /\ pout = NoPath
    /\ pmade = 0

\* a call of safe_output_path
PathAllocate ==
    /\ pc = "allocator"
    /\ \E src \in PathSources :
          /\ psrc' = src
          /\ pout' = safe_output_path(src, DOMAIN fs)
    /\ UNCHANGED <<fs, pmade, progVars, logVars>>

\* a backend creates the file at the path allocated last
PathCreate ==
    /\ pc = "allocator"
    /\ pout # NoPath
    /\ pmade < MaxCreate
    /\ fs' = (pout :> Pdf(1, 1)) @@ fs
    /\ pmade' = pmade + 1
    /\ psrc' = NoPath
    /\ pout' = NoPath
    /\ UNCHANGED <<progVars, logVars>>

NextPath == PathAllocate \/ PathCreate

SpecPath == InitPath /\ [][NextPath]_vars

-----------------------------------------------------------------------------
(* Properties of try_repair_file, read off the latest call: cur.tried      *)
(* lists the backends invoked and how each call ended                      *)

Order == 1..Len(STRATEGIES)

\* the backends, by place in the fixed order, whose call ended the given way
Ended(outcome) ==
    {i \in Order : \E j \in 1..Len(cur.tried) :
                      cur.tried[j] = [name |-> STRATEGIES[i].name, outcome |-> outcome]}

Least(S) == CHOOSE k \in S : \A j \in S : k <= j

\* C1: when try_repair_file returns and some backend's call returned
\* instead of raising, the status is REPAIRED and the strategy is the first
\* such backend of the fixed order, every backend before it having been
\* called and having raised; only when all four backends were called and
\* raised is the result anything else
C1_FirstSuccessWins ==
    cur.returned =>
        IF Ended("returned") # {}
        THEN LET k == Least(Ended("returned"))
             IN  /\ cur.result.status = "REPAIRED"
                 /\ cur.result.strategy = STRATEGIES[k].name
                 /\ \A i \in 1..(k - 1) : i \in Ended("raised")
        ELSE Ended("raised") = Order

C1_Witness ==
    /\ cur.returned
    /\ cur.result.status = "REPAIRED"
    /\ cur.result.strategy = "qpdf"
    /\ Len(cur.tried) = 3

\* the entries of a text joined with sep
RECURSIVE SplitOn(_, _)
SplitOn(text, sep) ==
    IF \E i \in 1..Len(text) : text[i] = sep
    THEN LET i == CHOOSE k \in 1..Len(text) :
                      text[k] = sep /\ \A j \in 1..(k - 1) : text[j] # sep
         IN  <<SubSeq(text, 1, i - 1)>> \o SplitOn(SubSeq(text, i + 1, Len(text)), sep)
    ELSE <<text>>

\* C2: when every backend raised, the status is FAILED, repaired is
\* empty, and the error text holds, after its heading, exactly four entries
\* separated by "; ", the i-th one naming the i-th backend of the order
C2_AllRaisedIsFailed ==
    (cur.returned /\ Ended("raised") = Order /\ Ended("returned") = {}) =>
        /\ cur.result.status = "FAILED"
        /\ cur.result.repaired = <<>>
        /\ cur.result.error # <<>>
        /\ LET entries == SplitOn(Tail(cur.result.error), "; ")
           IN  /\ Len(entries) = Len(STRATEGIES)
               /\ \A i \in Order :
                     /\ entries[i] # <<>>
                     /\ entries[i][1] = STRATEGIES[i].name

C2_Witness ==
    /\ cur.returned
    /\ avail = Backends
    /\ cur.result.status = "FAILED"
    /\ Len(cur.tried) = Len(STRATEGIES)

\* the backends invoked for the file so far, the running one included
Invoked ==
    [i \in 1..Len(cur.tried) |-> cur.tried[i].name]
    \o (IF pc = "work" THEN <<STRATEGIES[cur.si].name>> ELSE <<>>)

\* C3: the backends invoked for a file are a prefix of the fixed order
\* (in order, each once), and a call that returned is the last one invoked
C3_OrderedOnceStopAtSuccess ==
    cur # NoCur =>
        /\ Len(Invoked) <= Len(STRATEGIES)
        /\ \A i \in 1..Len(Invoked) : Invoked[i] = STRATEGIES[i].name
        /\ \A j \in 1..Len(cur.tried) :
              cur.tried[j].outcome = "returned" => j = Len(Invoked)

C3_Witness ==
    /\ cur.returned
    /\ cur.result.status = "REPAIRED"
    /\ Len(cur.tried) = 2
    /\ cur.tried[1].outcome = "raised"

\* the fields of a result agree with each other
FieldsConsistent(r) ==
    /\ r.status \in {"REPAIRED", "FAILED"}
    /\ r.status = "REPAIRED" <=> r.repaired # <<>>
    /\ r.status = "REPAIRED" => r.strategy \in Backends /\ r.error = <<>>
    /\ r.status = "FAILED" => r.repaired = <<>> /\ r.strategy = "" /\ r.error # <<>>

\* C4: every result returned is consistent: REPAIRED exactly when
\* repaired is set and exactly one backend call returned; then strategy
\* names that backend and error is empty; FAILED has repaired and strategy
\* empty and error set
C4_ResultConsistent ==
    /\ \A i \in 1..Len(results) : FieldsConsistent(results[i])
    /\ cur.returned =>
          /\ FieldsConsistent(cur.result)
          /\ cur.result.status = "REPAIRED" <=>
                (cur.result.repaired # <<>> /\ Cardinality(Ended("returned")) = 1)
          /\ cur.result.status = "REPAIRED" =>
                Ended("returned") = {i \in Order : STRATEGIES[i].name = cur.result.strategy}

C4_Witness ==
    /\ cur.returned
    /\ Len(results) = 2
    /\ results[1].status = "REPAIRED"
    /\ results[2].status = "FAILED"

-----------------------------------------------------------------------------
(* Properties of capture_warnings_for *)

\* a record at warning level or above, logged on one of the names
OnNamedChannel(names, e) ==
    e.level >= WARNING /\ \E i \in 1..Len(names) : names[i] = e.logger

OnConsole(e) ==
    \E j \in 1..Len(console) : console[j] = ConsoleFormat(e.level, e.msg)

\* C5: no record a library logged at warning level or above on a named
\* channel, while a capture_warnings_for call was running, is on the console
C5_DiagnosticsStayOffConsole ==
    /\ \A i \in 1..Len(stack) : \A k \in 1..Len(stack[i].emitted) :
          OnNamedChannel(stack[i].names, stack[i].emitted[k])
             => ~OnConsole(stack[i].emitted[k])
    /\ capRet.outcome # "none" =>
          \A k \in 1..Len(capRet.emitted) :
             OnNamedChannel(capRet.names, capRet.emitted[k])
                => ~OnConsole(capRet.emitted[k])

\* the logger, or one of its ancestors, is among the names
Covered(names, l) ==
    \E i \in 1..Len(names) :
       Len(names[i]) <= Len(l) /\ SubSeq(l, 1, Len(names[i])) = names[i]

\* one formatted entry per record the collectors are there for, in the
\* order the records were logged
RECURSIVE EntryPerMessage(_, _)
EntryPerMessage(names, emitted) ==
    IF emitted = <<>> THEN <<>>
    ELSE (IF Head(emitted).level >= WARNING /\ Covered(names, Head(emitted).logger)
          THEN <<CaptureFormat(Head(emitted).level, Head(emitted).msg)>>
          ELSE <<>>)
         \o EntryPerMessage(names, Tail(emitted))

\* C6: the warnings a capture_warnings_for call returns hold exactly one
\* entry per record logged on the captured channels during the call, in the
\* order of logging
C6_OneEntryPerMessage ==
    capRet.outcome \in {"returned", "raised"} =>
        capRet.warnings = EntryPerMessage(capRet.names, capRet.emitted)

\* C7: when a capture_warnings_for call has ended, however its work
\* ended, every logger has the handlers it had when the call began; with no
\* call running, the registry is the one the program started with
C7_HandlersRestored ==
    /\ capRet.outcome # "none" =>
          \A l \in Loggers : capRet.post[l] = capRet.pre[l]
    /\ stack = <<>> => reg = InitReg

\* a call nested in a call on the same two channels ended by an exit that
\* is no Exception
C7_Witness ==
    /\ capRet.outcome = "uncaught"
    /\ Len(capRet.names) = 2
    /\ Len(stack) = 1
    /\ stack[1].names = capRet.names
    /\ Len(reg[<<"pypdf">>]) = 1

-----------------------------------------------------------------------------
(* Properties of safe_output_path *)

FixedA == <<"f", "i", "x", "e", "d", "-", "a", ".", "p", "d", "f">>
FixedA1 == <<"f", "i", "x", "e", "d", "-", "a", "-", "1", ".", "p", "d", "f">>
FixedA2 == <<"f", "i", "x", "e", "d", "-", "a", "-", "2", ".", "p", "d", "f">>

\* fixed-<name> when unused, else fixed-<stem>-k<ext> for the least unused k >= 1
FirstFree(src, existing) ==
    LET fixed == WithName(src, FixedPrefix \o NameOf(src))
        free(k) == Candidate(src, k) \notin existing
    IN  IF fixed \notin existing THEN fixed
        ELSE Candidate(src, CHOOSE k \in 1..(Cardinality(existing) + 1) :
                                free(k) /\ \A j \in 1..(k - 1) : ~free(j))

\* C8: the path safe_output_path returns does not exist in the file
\* system of that call and is the first free one of fixed-<name>,
\* fixed-<stem>-1<ext>, fixed-<stem>-2<ext>, ...; for a.pdf beside
\* fixed-a.pdf and fixed-a-1.pdf it is fixed-a-2.pdf
C8_FirstFreePath ==
    pout # NoPath =>
        /\ pout \notin DOMAIN fs
        /\ pout = FirstFree(psrc, DOMAIN fs)
        /\ (/\ psrc = <<APdf>>
            /\ {<<FixedA>>, <<FixedA1>>} \subseteq DOMAIN fs
            /\ <<FixedA2>> \notin DOMAIN fs) => pout = <<FixedA2>>

\* fixed-a-2.pdf is allocated after a file was created at an earlier result
C8_Witness ==
    /\ pout = <<FixedA2>>
    /\ psrc = <<APdf>>
    /\ pmade > 0

-----------------------------------------------------------------------------
(* Properties of main *)

\* C9: with a backend available, the results main holds are those of
\* the PDFs the scan found, one each, in sorted path order, whatever their
\* status; main goes on after every file and ends with one result per PDF
C9_OneResultPerPdf ==
    (avail # {} /\ pc \in {"loop", "attach", "work", "done"}) =>
        /\ \A i \in 1..Len(pdfs) : \A j \in (i + 1)..Len(pdfs) :
              PathLess(pdfs[i], pdfs[j])
        /\ (pc = "loop" /\ idx = 0) =>
              {pdfs[i] : i \in 1..Len(pdfs)}
                 = {p \in DOMAIN fs : IsPdfName(NameOf(p))}
        /\ Len(results) = idx
        /\ idx <= Len(pdfs)
        /\ \A i \in 1..Len(results) : results[i].original = PathStr(pdfs[i])
        /\ pc = "done" => Len(results) = Len(pdfs)
        /\ pc = "loop" => ENABLED (BeginFile \/ WriteReport)
        /\ pc = "attach" => ENABLED AttemptBegin
        /\ pc = "work" => cur.si \in Order /\ Len(stack) = 1

C9_Witness ==
    /\ pc = "done"
    /\ Len(results) = 2
    /\ results[1].status = "FAILED"
    /\ results[2].status = "REPAIRED"

\* C10: with no backend available main stops after the fatal message:
\* nothing is scanned, no backend is called, and the file system stays as
\* it was (no repaired file, no report written)
C10_NoToolsNoRun ==
    avail = {} =>
        /\ pc \in {"start", "halted"}
        /\ pdfs = <<>> /\ results = <<>> /\ cur = NoCur
        /\ stack = <<>> /\ capRet = NoRet /\ reg = InitReg
        /\ fs \in InitialTrees
        /\ pc = "halted" =>
              /\ console # <<>>
              /\ console[1] = ConsoleFormat(ERROR, FatalLines[1])

C10_Witness ==
    /\ avail = {}
    /\ pc = "halted"
    /\ <<APdf>> \in DOMAIN fs

-----------------------------------------------------------------------------
(* Properties of the page counts *)

\* C11: page counts never decide the status: a file whose backend call
\* returned is REPAIRED whatever count_pages gave before and after (absent,
\* zero, or different), a file is FAILED only when no backend call returned,
\* and the counts in the result are those count_pages gives
C11_CountsNeverGate ==
    cur.returned =>
        /\ cur.result.status = "REPAIRED" <=> Ended("returned") # {}
        /\ cur.result.status = "FAILED" <=> Ended("raised") = Order
        /\ cur.result.status = "REPAIRED" =>
              cur.result.pages_after = count_pages(cur.dst, fs, avail)
        /\ cur.result.pages_before = count_pages(cur.src, fs, avail)

\* REPAIRED with one page counted before and no count after
C11_Witness ==
    /\ cur.returned
    /\ cur.result.status = "REPAIRED"
    /\ cur.result.pages_before = 1
    /\ cur.result.pages_after = NoPages

-----------------------------------------------------------------------------
(* Properties of the warnings of a result *)

\* C12: a file starts with no warnings; every attempt that ends, by
\* returning or by raising, appends what its capture_warnings_for call
\* returned to the warnings of the result, and nothing else changes them;
\* the status depends on how the calls ended, not on the warnings
C12_WarningsAccumulate ==
    [][/\ (pc = "loop" /\ pc' = "attach") => cur'.result.warnings = <<>>
       /\ (pc = "attach" /\ pc' = "work") =>
             cur'.result.warnings = cur.result.warnings
       /\ (pc = "work" /\ pc' = "work") =>
             cur'.result.warnings = cur.result.warnings
       /\ (pc = "work" /\ pc' \in {"attach", "loop"}) =>
             /\ capRet'.outcome \in {"returned", "raised"}
             /\ cur'.result.warnings = cur.result.warnings \o capRet'.warnings
             /\ cur'.returned =>
                   (cur'.result.status = "REPAIRED" <=> capRet'.outcome = "returned")
      ]_vars

\* REPAIRED by the second backend, with the warnings of the first, which
\* raised, ahead of those of the second
C12_Witness ==
    /\ cur.returned
    /\ cur.result.status = "REPAIRED"
    /\ Len(cur.tried) = 2
    /\ cur.tried[1].outcome = "raised"
    /\ Len(cur.result.warnings) = 3
    /\ cur.result.warnings[1] = CaptureFormat(WARNING, DiagText(MaxEmit))
    /\ cur.result.warnings[3] = CaptureFormat(WARNING, DiagText(MaxEmit - 1))

-----------------------------------------------------------------------------
(* Properties of the report *)

\* the report holds one block per scanned file, in scan order, and nothing else
ReportOfThisRun ==
    /\ ReportPath \in DOMAIN fs
    /\ fs[ReportPath].blocks = [i \in 1..Len(results) |-> ReportBlock(results[i])]
    /\ Len(fs[ReportPath].blocks) = Len(pdfs)
    /\ \A i \in 1..Len(pdfs) : fs[ReportPath].blocks[i].original = PathStr(pdfs[i])

\* the report is the one, if any, that was there when main started
ReportUntouched ==
    ReportPath \in DOMAIN fs => fs[ReportPath] = StaleReport

\* C13 as stated: a run that passed the availability check and ended
\* has written the report of this run, also when it found no PDF
C13_EveryRunWritesReport ==
    pc = "done" => ReportOfThisRun

\* C13 amended: a run that found at least one PDF and ended has replaced
\* the report by the report of this run; a run that found no PDF has
\* written nothing, so that a report of an earlier run is still there; and
\* until the run ends the report is untouched
C13_ReportWhenPdfsFound ==
    /\ (pc = "done" /\ pdfs # <<>>) => ReportOfThisRun
    /\ (pc = "done" /\ pdfs = <<>>) => fs \in InitialTrees
    /\ pc \in {"start", "scan", "loop", "attach", "work"} => ReportUntouched

\* the run found a.pdf and the fixed-a.pdf of an earlier run, whose report
\* it has replaced
C13_Witness ==
    /\ pc = "done"
    /\ Len(pdfs) = 2
    /\ pdfs[2] = <<FixedA>>
    /\ Len(fs[ReportPath].blocks) = 2
    /\ fs[ReportPath] # StaleReport

-----------------------------------------------------------------------------
(* Properties of the destination of a file *)

\* the two trees differ at most in the file at path p
SameExceptAt(f, g, p) ==
    /\ DOMAIN f \ {p} = DOMAIN g \ {p}
    /\ \A q \in DOMAIN f \ {p} : f[q] = g[q]

\* C14: the destination of a file is allocated when the file begins,
\* before any attempt, as safe_output_path gives it then; it and the source
\* stay the same through all the attempts of the file, an attempt touches
\* no path but the destination, and a REPAIRED result names that path
C14_OneDestination ==
    [][/\ (pc = "loop" /\ pc' = "attach") =>
             /\ cur'.src = pdfs[idx + 1]
             /\ cur'.dst = safe_output_path(cur'.src, DOMAIN fs)
             /\ cur'.tried = <<>>
             /\ fs' = fs
       /\ (pc \in {"attach", "work"} /\ pc' \in {"attach", "work", "loop"}) =>
             /\ cur'.src = cur.src
             /\ cur'.dst = cur.dst
             /\ SameExceptAt(fs, fs', cur.dst)
       /\ (pc = "work" /\ pc' = "loop" /\ cur'.result.status = "REPAIRED") =>
             /\ cur'.result.repaired = PathStr(cur.dst)
             /\ cur.dst \in DOMAIN fs'
      ]_vars

\* two attempts raised, one of them left a file at the destination, and
\* the third attempt is about to be made with the same destination
C14_Witness ==
    /\ pc = "attach"
    /\ Len(cur.tried) = 2
    /\ cur.dst = <<FixedA>>
    /\ cur.dst \in DOMAIN fs
    /\ fs[cur.dst] = PartialContent

-----------------------------------------------------------------------------
(* The loop of try_repair_file on its own, lines 341-370, for one file and *)
(* for strategies of the declared type (src, dst) -> bool: a call returns  *)
(* True, returns False, or raises.  The four backends of STRATEGIES never  *)
(* return False; the loop provides for it at lines 352, 360 and 366-367.   *)

\* the warnings a call may come back with
LoopWarnings == {<<>>, <<CaptureFormat(WARNING, DiagText(1))>>}

\* the tuple capture_warnings_for returns, lines 93-97 and 108
CaptureTuple(value, warnings, exc) ==
    [outcome |-> IF exc = NoExc THEN "returned" ELSE "raised",
     result |-> value, warnings |-> warnings, exc |-> exc]

InitLoop ==
    /\ avail = Backends
    /\ fs = InitialFiles({<<APdf>>})
    /\ pc = "unit"
    /\ pdfs = <<>>
    /\ idx = 0
    /\ results = <<>>
    /\ cur = [src |-> <<APdf>>,
              result |-> [EmptyResult(<<APdf>>) EXCEPT
                             !.pages_before = count_pages(<<APdf>>, fs, avail)],
              dst |-> safe_output_path(<<APdf>>, DOMAIN fs),
              errors |-> <<>>,
              si |-> 1,
              tried |-> <<>>,
              returned |-> FALSE]
    /\ console = <<>>
    /\ reg = InitReg
    /\ recs = <<>>
    /\ stack = <<>>
    /\ budget = MaxEmit
    /\ capRet = NoRet
    /\ psrc = NoPath
    /\ pout = NoPath
    /\ pmade = 0

\* one pass of the loop body, lines 346-361, and lines 364-370 after the
\* last one, for a call that ended as kind says
LoopPass(kind, ret, files) ==
    /\ pc = "unit"
    /\ ~cur.returned
    /\ cur' = AfterAttempt([cur EXCEPT !.tried =
                               Append(@, [name |-> STRATEGIES[cur.si].name,
                                          outcome |-> kind])],
                           ret, files, avail)
    /\ fs' = files
    /\ UNCHANGED <<avail, pc, pdfs, idx, results>>
    /\ UNCHANGED <<logVars, pathVars>>

\* the strategy returns True
LoopCallSucceeds ==
    \E w \in LoopWarnings :
       LoopPass("returned", CaptureTuple("True", w, NoExc),
                (cur.dst :> Pdf(1, 1)) @@ fs)

\* the strategy returns False without raising
LoopCallDeclines ==
    \E w \in LoopWarnings :
       LoopPass("declined", CaptureTuple("False", w, NoExc), fs)

\* the strategy raises
LoopCallRaises ==
    \E w \in LoopWarnings :
       \E exc \in {CapabilityError(STRATEGIES[cur.si].name),
                   ExecutionError(STRATEGIES[cur.si].name)} :
          LoopPass("raised", CaptureTuple("None", w, exc), fs)

NextLoop == LoopCallSucceeds \/ LoopCallDeclines \/ LoopCallRaises

SpecLoop == InitLoop /\ [][NextLoop]_vars

\* the attempts of the file that ended as outcome says
AttemptsThat(outcome) == SelectSeq(cur.tried, LAMBDA t : t.outcome = outcome)

\* the entry has the form <name>: <kind>: <message>, for the backend name
EntryFor(entry, name) ==
    /\ Len(entry) = 5
    /\ entry[1] = name
    /\ entry[2] = ": " /\ entry[4] = ": "
    /\ entry[3] \in {CapabilityError(name).kind, ExecutionError(name).kind}
    /\ entry[5] \in {CapabilityError(name).msg, ExecutionError(name).msg}

\* C15 as stated: every attempt that did not succeed, raised or not,
\* has its one entry, so a FAILED file has as many entries as attempts
C15_OneEntryPerFailedAttempt ==
    /\ Len(cur.errors) = Len(AttemptsThat("raised")) + Len(AttemptsThat("declined"))
    /\ (cur.returned /\ cur.result.status = "FAILED") =>
          Len(cur.errors) = Len(cur.tried)

\* C15 amended: every attempt that raised has its one entry
\* <name>: <kind>: <message>, in attempt order; an attempt that returned
\* without success has none; a FAILED file has as many entries as attempts
\* that raised, and with none its error is the fixed text
C15_OneEntryPerRaise ==
    /\ Len(cur.errors) = Len(AttemptsThat("raised"))
    /\ \A k \in 1..Len(cur.errors) :
          EntryFor(cur.errors[k], AttemptsThat("raised")[k].name)
    /\ (cur.returned /\ cur.result.status = "FAILED") =>
          /\ Len(cur.tried) = Len(STRATEGIES)
          /\ AttemptsThat("returned") = <<>>
          /\ cur.errors = <<>> =>
                cur.result.error = <<"All strategies failed (no exceptions recorded)">>
          /\ cur.errors # <<>> =>
                cur.result.error = <<"All strategies failed. ">> \o Join(cur.errors, "; ")

\* a FAILED file of which three backends raised and one returned False
C15_Witness ==
    /\ cur.returned
    /\ cur.result.status = "FAILED"
    /\ Len(cur.tried) = 4
    /\ cur.tried[2].outcome = "declined"
    /\ Len(cur.errors) = 3

-----------------------------------------------------------------------------
(* Properties of the files a run leaves *)

\* C16: when try_repair_file has returned, there is a file at the
\* destination it allocated exactly when the status is REPAIRED
C16_OutputIffRepaired ==
    cur.returned =>
        (cur.dst \in DOMAIN fs <=> cur.result.status = "REPAIRED")

-----------------------------------------------------------------------------
(* Properties of the life of a result *)

\* no terminal field of the result has been written
Unfinished(r) ==
    /\ r.status = "" /\ r.strategy = "" /\ r.repaired = <<>>
    /\ r.error = <<>> /\ r.pages_after = NoPages

\* C17: a result begins with the pre-count alone, before any attempt;
\* its terminal fields stay unwritten through the attempts; the step on
\* which try_repair_file returns writes the status, once, from empty to
\* REPAIRED or FAILED, with a post-count only for REPAIRED; and a result
\* main holds is never changed, up to the report made from it
C17_StatusOnceThenFrozen ==
    [][/\ (pc = "loop" /\ pc' = "attach") =>
             /\ Unfinished(cur'.result)
             /\ cur'.result.warnings = <<>>
             /\ cur'.result.pages_before = count_pages(cur'.src, fs, avail)
             /\ cur'.tried = <<>>
       /\ (pc \in {"attach", "work"} /\ pc' \in {"attach", "work"}) =>
             /\ Unfinished(cur'.result)
             /\ cur'.result.pages_before = cur.result.pages_before
       /\ (pc = "work" /\ pc' = "loop") =>
             /\ cur.result.status = ""
             /\ cur'.returned
             /\ cur'.result.status \in {"REPAIRED", "FAILED"}
             /\ cur'.result.pages_before = cur.result.pages_before
             /\ cur'.result.status = "FAILED" =>
                   /\ cur'.result.pages_after = NoPages
                   /\ cur'.result.repaired = <<>>
                   /\ cur'.result.strategy = ""
             /\ cur'.result.status = "REPAIRED" =>
                   /\ cur'.tried[Len(cur'.tried)].outcome = "returned"
                   /\ cur'.result.pages_after = count_pages(cur.dst, fs', avail)
             /\ results' = Append(results, cur'.result)
       /\ pc' # "interrupted" =>
             /\ Len(results') >= Len(results)
             /\ \A i \in 1..Len(results) : results'[i] = results[i]
       /\ (pc = "loop" /\ pc' = "done") =>
             fs'[ReportPath].blocks = [i \in 1..Len(results) |-> ReportBlock(results[i])]
      ]_vars

\* a run that ended with a FAILED result without post-count, counted
\* before, and a REPAIRED one with its post-count
C17_Witness ==
    /\ pc = "done"
    /\ Len(results) = 2
    /\ results[1].status = "FAILED"
    /\ results[1].pages_before = 1
    /\ results[1].pages_after = NoPages
    /\ results[2].status = "REPAIRED"
    /\ results[2].pages_after = 1

-----------------------------------------------------------------------------
(* Properties of a whole run *)

\* C18: the destination of a file does not exist when it is allocated;
\* it is no scanned PDF, not the report, and not the output of an earlier
\* file of the run; no step removes a file, and a step changes no file but
\* the destination of the file in progress and, at the end, the report; so
\* any two REPAIRED results of a run name different paths
C18_NothingOverwritten ==
    [][/\ (pc = "loop" /\ pc' = "attach") => cur'.dst \notin DOMAIN fs
       /\ pc' \in {"attach", "work"} =>
             /\ \A i \in 1..Len(pdfs') : pdfs'[i] # cur'.dst
             /\ cur'.dst # ReportPath
             /\ \A i \in 1..Len(results') : results'[i].repaired # PathStr(cur'.dst)
       /\ \A p \in DOMAIN fs :
             /\ p \in DOMAIN fs'
             /\ \/ fs'[p] = fs[p]
                \/ pc = "work" /\ p = cur.dst
                \/ pc' = "done" /\ p = ReportPath
       /\ \A i \in 1..Len(results') : \A j \in (i + 1)..Len(results') :
             (results'[i].status = "REPAIRED" /\ results'[j].status = "REPAIRED")
                => results'[i].repaired # results'[j].repaired
      ]_vars

\* a.pdf was repaired to fixed-a-1.pdf beside the fixed-a.pdf of an
\* earlier run, and fixed-a.pdf itself to fixed-fixed-a.pdf
C18_Witness ==
    /\ pc = "done"
    /\ Len(results) = 2
    /\ pdfs[2] = <<FixedA>>
    /\ results[1].status = "REPAIRED"
    /\ results[1].repaired = PathStr(<<FixedA1>>)
    /\ results[2].status = "REPAIRED"
    /\ results[2].repaired = PathStr(<<FixedPrefix \o FixedA>>)
    /\ fs[<<FixedA>>] = InitialPdfs[<<FixedA>>]

=============================================================================
